---- MODULE Spec2Model ----
(***************************************************************************)
(* Trading_Team: the Account ledger of output/accounts.py driven by the    *)
(* Gradio callbacks of output/app.py on the module-level account.          *)
(*                                                                         *)
(* Amounts are whole currency units (exact integers); quantities are       *)
(* integers as annotated in the source.  A dict is a function whose        *)
(* DOMAIN is the set of keys; a list is a sequence.                        *)
(***************************************************************************)
EXTENDS Integers, Sequences, FiniteSets, TLC

\* ---------------------------------------------------------------- bounds
MaxTx == 3          \* calls are issued while the history is shorter than this
MaxQty == 2         \* quantities offered by the caller range over -1..MaxQty
MaxBalance == 3000  \* deposits are offered while they keep the balance below this

\* ---------------------------------------------------------------- inputs
PricedSymbols == {"AAPL", "TSLA", "GOOGL"}
Symbols == PricedSymbols \cup {"XYZ"}
Amounts == {-150, 0, 150, 300, 850, 2800}
Quantities == -1..MaxQty
Usernames == {"User", "alice"}

\* ---------------------------------------------------------------- messages
NoError == "none"
ErrDeposit == "Deposit amount must be greater than zero."
ErrWithdraw == "Withdrawal amount must be greater than zero."
ErrFunds == "Insufficient funds to withdraw the specified amount."
ErrQuantity == "Quantity must be greater than zero."
ErrBuyFunds == "Insufficient funds to buy shares."
ErrShares == "Not enough shares to sell."
Errors == {ErrDeposit, ErrWithdraw, ErrFunds, ErrQuantity, ErrBuyFunds, ErrShares}

\* ---------------------------------------------------------------- state
VARIABLES
    username,      \* account.username
    balance,       \* account.balance
    holdings,      \* account.holdings: symbol -> share count
    transactions,  \* account.transactions: list of records
    output,        \* the value the last callback returned to the GUI
    lastCall,      \* the callback last invoked, with its arguments
    succeeded,     \* number of deposit/withdraw/buy/sell calls that returned
                   \* normally since the account was (re)created
    initial_cash,  \* the cash the account was constructed with
    inflight,      \* callbacks running in other threads: caller -> frame
    interleaved    \* whether a step of one callback ever ran inside another's

vars == <<username, balance, holdings, transactions, output, lastCall, succeeded,
          initial_cash, inflight, interleaved>>

\* one caller at a time, on an account constructed without cash
others == <<initial_cash, inflight, interleaved>>
Sequential ==
    /\ initial_cash = 0
    /\ inflight = [c \in {} |-> 0]
    /\ interleaved = FALSE

\* the account object as a value
Acct(u, b, h, t) == [username |-> u, balance |-> b, holdings |-> h, transactions |-> t]
account == Acct(username, balance, holdings, transactions)

EmptyDict == [s \in {} |-> 0]

\* transaction records; absent keys are filled with neutral values
CashTx(type, amount) == [type |-> type, amount |-> amount, symbol |-> "", quantity |-> 0]
ShareTx(type, symbol, quantity) == [type |-> type, amount |-> 0, symbol |-> symbol, quantity |-> quantity]

\* result of a method call: the account afterwards and the ValueError raised, if any
Return(a) == [acct |-> a, err |-> NoError]
Raise(a, msg) == [acct |-> a, err |-> msg]

\* dict helpers
DictSet(d, k, v) == [s \in (DOMAIN d) \cup {k} |-> IF s = k THEN v ELSE d[s]]
DictDel(d, k) == [s \in (DOMAIN d) \ {k} |-> d[s]]

\* ---------------------------------------------------------------- accounts.py
get_share_price(symbol) ==
    CASE symbol = "AAPL" -> 150
      [] symbol = "TSLA" -> 700
      [] symbol = "GOOGL" -> 2800
      [] OTHER -> 0

\* ---------------------------------------------------------------- faulty variants
\* withdraw without the funds check
Mut_withdraw_no_funds_check(a, amount) ==
    IF amount <= 0 THEN Raise(a, ErrWithdraw)
    ELSE Return(Acct(a.username, a.balance - amount, a.holdings,
                     Append(a.transactions, CashTx("Withdrawal", amount))))

\* withdraw that takes the money before it checks the funds
Mut_withdraw_deduct_before_check(a, amount) ==
    IF amount <= 0 THEN Raise(a, ErrWithdraw)
    ELSE IF a.balance - amount < 0
         THEN Raise(Acct(a.username, a.balance - amount, a.holdings, a.transactions), ErrFunds)
    ELSE Return(Acct(a.username, a.balance - amount, a.holdings,
                     Append(a.transactions, CashTx("Withdrawal", amount))))

\* withdraw that also rejects an amount equal to the balance
Mut_withdraw_strict(a, amount) ==
    IF amount <= 0 THEN Raise(a, ErrWithdraw)
    ELSE IF a.balance - amount <= 0 THEN Raise(a, ErrFunds)
    ELSE Return(Acct(a.username, a.balance - amount, a.holdings,
                     Append(a.transactions, CashTx("Withdrawal", amount))))

\* deposit that accepts a zero amount
Mut_deposit_allow_zero(a, amount) ==
    IF amount < 0 THEN Raise(a, ErrDeposit)
    ELSE Return(Acct(a.username, a.balance + amount, a.holdings,
                     Append(a.transactions, CashTx("Deposit", amount))))

\* deposit that assigns the history instead of appending to it
Mut_deposit_overwrite_history(a, amount) ==
    IF amount <= 0 THEN Raise(a, ErrDeposit)
    ELSE Return(Acct(a.username, a.balance + amount, a.holdings,
                     << CashTx("Deposit", amount) >>))

\* buy that also rejects a cost equal to the balance
Mut_buy_strict(a, symbol, quantity) ==
    IF quantity <= 0 THEN Raise(a, ErrQuantity)
    ELSE LET cost == get_share_price(symbol) * quantity IN
         IF cost >= a.balance THEN Raise(a, ErrBuyFunds)
         ELSE Return(Acct(a.username, a.balance - cost,
                          IF symbol \in DOMAIN a.holdings
                          THEN DictSet(a.holdings, symbol, a.holdings[symbol] + quantity)
                          ELSE DictSet(a.holdings, symbol, quantity),
                          Append(a.transactions, ShareTx("Buy", symbol, quantity))))

\* buy that assigns the quantity to an existing position instead of adding it
Mut_buy_overwrite(a, symbol, quantity) ==
    IF quantity <= 0 THEN Raise(a, ErrQuantity)
    ELSE LET cost == get_share_price(symbol) * quantity IN
         IF cost > a.balance THEN Raise(a, ErrBuyFunds)
         ELSE Return(Acct(a.username, a.balance - cost,
                          DictSet(a.holdings, symbol, quantity),
                          Append(a.transactions, ShareTx("Buy", symbol, quantity))))

\* sell that leaves a zero-share entry in holdings
Mut_sell_keep_zero(a, symbol, quantity) ==
    IF quantity <= 0 THEN Raise(a, ErrQuantity)
    ELSE IF symbol \notin DOMAIN a.holdings \/ a.holdings[symbol] < quantity
         THEN Raise(a, ErrShares)
    ELSE Return(Acct(a.username, a.balance + get_share_price(symbol) * quantity,
                     DictSet(a.holdings, symbol, a.holdings[symbol] - quantity),
                     Append(a.transactions, ShareTx("Sell", symbol, quantity))))

\* sell that records nothing
Mut_sell_no_record(a, symbol, quantity) ==
    IF quantity <= 0 THEN Raise(a, ErrQuantity)
    ELSE IF symbol \notin DOMAIN a.holdings \/ a.holdings[symbol] < quantity
         THEN Raise(a, ErrShares)
    ELSE LET left == a.holdings[symbol] - quantity
         IN Return(Acct(a.username, a.balance + get_share_price(symbol) * quantity,
                        IF left = 0 THEN DictDel(a.holdings, symbol)
                        ELSE DictSet(a.holdings, symbol, left),
                        a.transactions))

\* sell that refuses to sell the whole position
Mut_sell_off_by_one(a, symbol, quantity) ==
    IF quantity <= 0 THEN Raise(a, ErrQuantity)
    ELSE IF symbol \notin DOMAIN a.holdings \/ a.holdings[symbol] <= quantity
         THEN Raise(a, ErrShares)
    ELSE LET left == a.holdings[symbol] - quantity
         IN Return(Acct(a.username, a.balance + get_share_price(symbol) * quantity,
                        IF left = 0 THEN DictDel(a.holdings, symbol)
                        ELSE DictSet(a.holdings, symbol, left),
                        Append(a.transactions, ShareTx("Sell", symbol, quantity))))

\* buy that charges one share whatever the quantity
Mut_buy_charge_one_share(a, symbol, quantity) ==
    IF quantity <= 0 THEN Raise(a, ErrQuantity)
    ELSE LET cost == get_share_price(symbol) * quantity IN
         IF cost > a.balance THEN Raise(a, ErrBuyFunds)
         ELSE Return(Acct(a.username, a.balance - get_share_price(symbol),
                          IF symbol \in DOMAIN a.holdings
                          THEN DictSet(a.holdings, symbol, a.holdings[symbol] + quantity)
                          ELSE DictSet(a.holdings, symbol, quantity),
                          Append(a.transactions, ShareTx("Buy", symbol, quantity))))

\* sell that drops the whole position whatever the quantity
Mut_sell_drop_position(a, symbol, quantity) ==
    IF quantity <= 0 THEN Raise(a, ErrQuantity)
    ELSE IF symbol \notin DOMAIN a.holdings \/ a.holdings[symbol] < quantity
         THEN Raise(a, ErrShares)
    ELSE Return(Acct(a.username, a.balance + get_share_price(symbol) * quantity,
                     DictDel(a.holdings, symbol),
                     Append(a.transactions, ShareTx("Sell", symbol, quantity))))

\* ---------------------------------------------------------------- accounts.py (continued)
Account_init(u) == Acct(u, 0, EmptyDict, << >>)

create_account(a, u) == Return(Acct(u, 0, EmptyDict, << >>))

deposit(a, amount) ==
    IF amount <= 0 THEN Raise(a, ErrDeposit)
    ELSE Return(Acct(a.username, a.balance + amount, a.holdings,
                     Append(a.transactions, CashTx("Deposit", amount))))

withdraw(a, amount) ==
    IF amount <= 0 THEN Raise(a, ErrWithdraw)
    ELSE IF a.balance - amount < 0 THEN Raise(a, ErrFunds)
    ELSE Return(Acct(a.username, a.balance - amount, a.holdings,
                     Append(a.transactions, CashTx("Withdrawal", amount))))

buy_shares(a, symbol, quantity) ==
    IF quantity <= 0 THEN Raise(a, ErrQuantity)
    ELSE LET cost == get_share_price(symbol) * quantity IN
         IF cost > a.balance THEN Raise(a, ErrBuyFunds)
         ELSE Return(Acct(a.username, a.balance - cost,
                          IF symbol \in DOMAIN a.holdings
                          THEN DictSet(a.holdings, symbol, a.holdings[symbol] + quantity)
                          ELSE DictSet(a.holdings, symbol, quantity),
                          Append(a.transactions, ShareTx("Buy", symbol, quantity))))

sell_shares(a, symbol, quantity) ==
    IF quantity <= 0 THEN Raise(a, ErrQuantity)
    ELSE IF symbol \notin DOMAIN a.holdings \/ a.holdings[symbol] < quantity
         THEN Raise(a, ErrShares)
    ELSE LET proceeds == get_share_price(symbol) * quantity
             left == a.holdings[symbol] - quantity
         IN Return(Acct(a.username, a.balance + proceeds,
                        IF left = 0 THEN DictDel(a.holdings, symbol)
                        ELSE DictSet(a.holdings, symbol, left),
                        Append(a.transactions, ShareTx("Sell", symbol, quantity))))

RECURSIVE SumHoldings(_, _)
SumHoldings(h, S) ==
    IF S = {} THEN 0
    ELSE LET s == CHOOSE x \in S : TRUE
         IN get_share_price(s) * h[s] + SumHoldings(h, S \ {s})

\* portfolio value that leaves the cash out
Mut_portfolio_value_without_cash(a) == SumHoldings(a.holdings, DOMAIN a.holdings)

get_portfolio_value(a) == a.balance + SumHoldings(a.holdings, DOMAIN a.holdings)

RECURSIVE SumDeposits(_)
SumDeposits(t) ==
    IF t = << >> THEN 0
    ELSE (IF Head(t).type = "Deposit" THEN Head(t).amount ELSE 0) + SumDeposits(Tail(t))

RECURSIVE SumWithdrawals(_)
SumWithdrawals(t) ==
    IF t = << >> THEN 0
    ELSE (IF Head(t).type = "Withdrawal" THEN Head(t).amount ELSE 0) + SumWithdrawals(Tail(t))

\* profit/loss against the net of deposits and withdrawals
Mut_profit_loss_net_of_withdrawals(a) ==
    get_portfolio_value(a) - (SumDeposits(a.transactions) - SumWithdrawals(a.transactions))

get_profit_loss(a) == get_portfolio_value(a) - SumDeposits(a.transactions)

get_holdings(a) == a.holdings

get_transaction_history(a) == a.transactions

\* ---------------------------------------------------------------- app.py
Call(op, amount, symbol, quantity, u) ==
    [op |-> op, amount |-> amount, symbol |-> symbol, quantity |-> quantity, username |-> u]

\* store the account a method left behind, and what the callback returned
Commit(r, okText, call) ==
    /\ username' = r.acct.username
    /\ balance' = r.acct.balance
    /\ holdings' = r.acct.holdings
    /\ transactions' = r.acct.transactions
    /\ output' = IF r.err = NoError THEN okText ELSE r.err
    /\ lastCall' = call
    /\ UNCHANGED others

CanCall == Len(transactions) < MaxTx

app_create_account ==
    \E u \in Usernames :
        /\ Commit(create_account(account, u), "Account created successfully!",
                  Call("create_account", 0, "", 0, u))
        /\ succeeded' = 0

app_deposit ==
    \E amount \in Amounts :
        /\ CanCall
        /\ balance + amount <= MaxBalance
        /\ LET r == deposit(account, amount) IN
             /\ Commit(r, "Deposited", Call("deposit", amount, "", 0, ""))
             /\ succeeded' = IF r.err = NoError THEN succeeded + 1 ELSE succeeded

app_withdraw ==
    \E amount \in Amounts :
        /\ CanCall
        /\ LET r == withdraw(account, amount) IN
             /\ Commit(r, "Withdrew", Call("withdraw", amount, "", 0, ""))
             /\ succeeded' = IF r.err = NoError THEN succeeded + 1 ELSE succeeded

app_buy_shares ==
    \E symbol \in Symbols, quantity \in Quantities :
        /\ CanCall
        /\ LET r == buy_shares(account, symbol, quantity) IN
             /\ Commit(r, "Bought", Call("buy_shares", 0, symbol, quantity, ""))
             /\ succeeded' = IF r.err = NoError THEN succeeded + 1 ELSE succeeded

app_sell_shares ==
    \E symbol \in Symbols, quantity \in Quantities :
        /\ CanCall
        /\ LET r == sell_shares(account, symbol, quantity) IN
             /\ Commit(r, "Sold", Call("sell_shares", 0, symbol, quantity, ""))
             /\ succeeded' = IF r.err = NoError THEN succeeded + 1 ELSE succeeded

app_get_balance ==
    /\ output' = "Balance"
    /\ lastCall' = Call("get_balance", 0, "", 0, "")
    /\ UNCHANGED <<username, balance, holdings, transactions, succeeded>>
    /\ UNCHANGED others

app_get_holdings ==
    /\ output' = IF DOMAIN get_holdings(account) # {} THEN "Holdings" ELSE "No holdings."
    /\ lastCall' = Call("get_holdings", 0, "", 0, "")
    /\ UNCHANGED <<username, balance, holdings, transactions, succeeded>>
    /\ UNCHANGED others

app_get_profit_loss ==
    /\ output' = "Profit/Loss"
    /\ lastCall' = Call("get_profit_loss", 0, "", 0, "")
    /\ UNCHANGED <<username, balance, holdings, transactions, succeeded>>
    /\ UNCHANGED others

app_get_transactions ==
    /\ output' = IF get_transaction_history(account) # << >> THEN "Transactions" ELSE "No transactions."
    /\ lastCall' = Call("get_transactions", 0, "", 0, "")
    /\ UNCHANGED <<username, balance, holdings, transactions, succeeded>>
    /\ UNCHANGED others

Init ==
    /\ username = Account_init("User").username
    /\ balance = Account_init("User").balance
    /\ holdings = Account_init("User").holdings
    /\ transactions = Account_init("User").transactions
    /\ output = ""
    /\ lastCall = Call("init", 0, "", 0, "User")
    /\ succeeded = 0
    /\ Sequential

Next ==
    \/ app_create_account
    \/ app_deposit
    \/ app_withdraw
    \/ app_buy_shares
    \/ app_sell_shares
    \/ app_get_balance
    \/ app_get_holdings
    \/ app_get_profit_loss
    \/ app_get_transactions

Spec == Init /\ [][Next]_vars

\* ---------------------------------------------------------------- app.py, free-text symbols
\* the symbol Textbox takes any text: the table's spellings, an unknown
\* symbol, and lower-case or mixed-case spellings of table symbols
TypedSymbols == Symbols \cup {"aapl", "tsLa"}

app_buy_shares_typed ==
    \E symbol \in TypedSymbols, quantity \in Quantities :
        /\ CanCall
        /\ LET r == buy_shares(account, symbol, quantity) IN
             /\ Commit(r, "Bought", Call("buy_shares", 0, symbol, quantity, ""))
             /\ succeeded' = IF r.err = NoError THEN succeeded + 1 ELSE succeeded

app_sell_shares_typed ==
    \E symbol \in TypedSymbols, quantity \in Quantities :
        /\ CanCall
        /\ LET r == sell_shares(account, symbol, quantity) IN
             /\ Commit(r, "Sold", Call("sell_shares", 0, symbol, quantity, ""))
             /\ succeeded' = IF r.err = NoError THEN succeeded + 1 ELSE succeeded

NextTyped ==
    \/ app_deposit
    \/ app_withdraw
    \/ app_buy_shares_typed
    \/ app_sell_shares_typed

SpecTyped == Init /\ [][NextTyped]_vars

\* ---------------------------------------------------------------- test_accounts.py
\* The Account class defined in src/test_accounts.py, called directly as the
\* TestAccount methods do, on an account built as in setUp.  It shares the
\* variables above: username holds user_id, output the exception raised by
\* the last call (or "None", what the methods return).
SymbolsT == {"AAPL", "TSLA", "XYZ"}
AmountsT == {-150, 0, 100, 1000}

ExcFunds == "Insufficient funds"
ExcBuyFunds == "Insufficient funds to buy shares"
ExcShares == "Not enough shares to sell"
ExcKeyError == "KeyError"
ExceptionsT == {ExcFunds, ExcBuyFunds, ExcShares, ExcKeyError}

T_get_share_price(symbol) ==
    CASE symbol = "AAPL" -> 150
      [] symbol = "TSLA" -> 700
      [] symbol = "GOOGL" -> 2800
      [] OTHER -> 0

T_Account_init(user_id) == Acct(user_id, 0, EmptyDict, << >>)

T_deposit(a, amount) ==
    Return(Acct(a.username, a.balance + amount, a.holdings,
                Append(a.transactions, CashTx("deposit", amount))))

T_withdraw(a, amount) ==
    IF a.balance - amount < 0 THEN Raise(a, ExcFunds)
    ELSE Return(Acct(a.username, a.balance - amount, a.holdings,
                     Append(a.transactions, CashTx("withdraw", amount))))

\* dict.get(key, default)
DictGet(dict, k, default) == IF k \in DOMAIN dict THEN dict[k] ELSE default

buy_share(a, symbol, quantity) ==
    LET total_cost == T_get_share_price(symbol) * quantity IN
    IF a.balance < total_cost THEN Raise(a, ExcBuyFunds)
    ELSE Return(Acct(a.username, a.balance - total_cost,
                     DictSet(a.holdings, symbol, DictGet(a.holdings, symbol, 0) + quantity),
                     Append(a.transactions, ShareTx("buy", symbol, quantity))))

sell_share(a, symbol, quantity) ==
    IF DictGet(a.holdings, symbol, 0) < quantity THEN Raise(a, ExcShares)
    ELSE IF symbol \notin DOMAIN a.holdings THEN Raise(a, ExcKeyError)
    ELSE LET total_earnings == T_get_share_price(symbol) * quantity
             left == a.holdings[symbol] - quantity
         IN Return(Acct(a.username, a.balance + total_earnings,
                        IF left = 0 THEN DictDel(a.holdings, symbol)
                        ELSE DictSet(a.holdings, symbol, left),
                        Append(a.transactions, ShareTx("sell", symbol, quantity))))

RECURSIVE T_SumHoldings(_, _)
T_SumHoldings(h, S) ==
    IF S = {} THEN 0
    ELSE LET s == CHOOSE x \in S : TRUE
         IN T_get_share_price(s) * h[s] + T_SumHoldings(h, S \ {s})

calculate_portfolio_value(a) == T_SumHoldings(a.holdings, DOMAIN a.holdings)

RECURSIVE T_SumDeposits(_)
T_SumDeposits(t) ==
    IF t = << >> THEN 0
    ELSE (IF Head(t).type = "deposit" THEN Head(t).amount ELSE 0) + T_SumDeposits(Tail(t))

calculate_profit_loss(a) ==
    (a.balance + calculate_portfolio_value(a)) - T_SumDeposits(a.transactions)

get_current_balance(a) == a.balance

\* one direct method call: the account it leaves and the exception, if any
T_Commit(r, call) ==
    /\ username' = r.acct.username
    /\ balance' = r.acct.balance
    /\ holdings' = r.acct.holdings
    /\ transactions' = r.acct.transactions
    /\ output' = IF r.err = NoError THEN "None" ELSE r.err
    /\ lastCall' = call
    /\ succeeded' = IF r.err = NoError THEN succeeded + 1 ELSE succeeded
    /\ UNCHANGED others

\* deposits are offered while the balance stays within MaxBalance of zero
T_call_deposit ==
    \E amount \in AmountsT :
        /\ CanCall
        /\ balance + amount <= MaxBalance
        /\ T_Commit(T_deposit(account, amount), Call("deposit", amount, "", 0, ""))

T_call_withdraw ==
    \E amount \in AmountsT :
        /\ CanCall
        /\ T_Commit(T_withdraw(account, amount), Call("withdraw", amount, "", 0, ""))

T_call_buy_share ==
    \E symbol \in SymbolsT, quantity \in Quantities :
        /\ CanCall
        /\ T_Commit(buy_share(account, symbol, quantity), Call("buy_share", 0, symbol, quantity, ""))

T_call_sell_share ==
    \E symbol \in SymbolsT, quantity \in Quantities :
        /\ CanCall
        /\ T_Commit(sell_share(account, symbol, quantity), Call("sell_share", 0, symbol, quantity, ""))

InitT ==
    /\ username = T_Account_init("user123").username
    /\ balance = T_Account_init("user123").balance
    /\ holdings = T_Account_init("user123").holdings
    /\ transactions = T_Account_init("user123").transactions
    /\ output = ""
    /\ lastCall = Call("init", 0, "", 0, "user123")
    /\ succeeded = 0
    /\ Sequential

NextT ==
    \/ T_call_deposit
    \/ T_call_withdraw
    \/ T_call_buy_share
    \/ T_call_sell_share

SpecT == InitT /\ [][NextT]_vars

\* ---------------------------------------------------------------- trading.py (TradingAccount)
\* trading.py is not among the sources: TradingAccount is modelled from the
\* ledger contract of the specification and from what test_trading.py
\* expects of it.  balance holds cash, holdings the positions
\* (symbol -> shares and average cost) and transactions the history.
SymbolsTA == {"AAPL", "aapl", "MSFT", "INVALID"}
AmountsTA == {-100, 0, 300, 500}
InitialCash == {0, 1000}

InvalidQuantityError == "InvalidQuantityError"
InsufficientFundsError == "InsufficientFundsError"
InsufficientSharesError == "InsufficientSharesError"
UnknownSymbolError == "UnknownSymbolError"
ErrorsTA == {InvalidQuantityError, InsufficientFundsError, InsufficientSharesError, UnknownSymbolError}

Timestamp == "2023-01-01T00:00:00"

\* exact decimals: a fraction in lowest terms
RECURSIVE GCD(_, _)
GCD(m, n) == IF n = 0 THEN m ELSE GCD(n, m % n)
Rat(n, d) == LET g == GCD(n, d) IN [num |-> n \div g, den |-> d \div g]

Position(shares, avg_cost) == [shares |-> shares, avg_cost |-> avg_cost]

TradeRecord(type, symbol, quantity, price, total_amount) ==
    [type |-> type, symbol |-> symbol, quantity |-> quantity, price |-> price,
     total_amount |-> total_amount, timestamp |-> Timestamp]

\* symbol.upper() over the spellings offered
TA_upper(symbol) == IF symbol = "aapl" THEN "AAPL" ELSE symbol

TA_prices == [AAPL |-> 150, TSLA |-> 700, GOOGL |-> 2500, MSFT |-> 300]

\* quote: the price, or "unknown" where UnknownSymbolError is raised
quote(symbol) ==
    IF TA_upper(symbol) \in DOMAIN TA_prices THEN TA_prices[TA_upper(symbol)] ELSE -1

TradingAccount(cash) == Acct("", cash, EmptyDict, << >>)

TA_deposit(a, amount) ==
    IF amount <= 0 THEN Raise(a, InvalidQuantityError)
    ELSE Return(Acct(a.username, a.balance + amount, a.holdings,
                     Append(a.transactions, TradeRecord("deposit", "", 0, 0, amount))))

TA_withdraw(a, amount) ==
    IF amount <= 0 THEN Raise(a, InvalidQuantityError)
    ELSE IF amount > a.balance THEN Raise(a, InsufficientFundsError)
    ELSE Return(Acct(a.username, a.balance - amount, a.holdings,
                     Append(a.transactions, TradeRecord("withdrawal", "", 0, 0, 0 - amount))))

\* buy that divides the new cost basis by the old share count
Mut_buy_avg_over_old_shares(a, symbol, quantity) ==
    IF quantity <= 0 THEN Raise(a, InvalidQuantityError)
    ELSE IF quote(symbol) < 0 THEN Raise(a, UnknownSymbolError)
    ELSE LET sym == TA_upper(symbol)
             price == quote(symbol)
             cost == price * quantity
         IN IF cost > a.balance THEN Raise(a, InsufficientFundsError)
            ELSE Return(Acct(a.username, a.balance - cost,
                     IF sym \in DOMAIN a.holdings
                     THEN LET old == a.holdings[sym] IN
                          DictSet(a.holdings, sym,
                             Position(old.shares + quantity,
                                Rat(old.shares * old.avg_cost.num + quantity * price * old.avg_cost.den,
                                    old.avg_cost.den * old.shares)))
                     ELSE DictSet(a.holdings, sym, Position(quantity, Rat(price, 1))),
                     Append(a.transactions, TradeRecord("buy", sym, quantity, price, 0 - cost))))

\* sell that records the proceeds as an outflow
Mut_sell_negative_total(a, symbol, quantity) ==
    IF quantity <= 0 THEN Raise(a, InvalidQuantityError)
    ELSE IF TA_upper(symbol) \notin DOMAIN a.holdings THEN Raise(a, UnknownSymbolError)
    ELSE LET sym == TA_upper(symbol)
             old == a.holdings[sym]
         IN IF quantity > old.shares THEN Raise(a, InsufficientSharesError)
            ELSE LET price == quote(symbol)
                     proceeds == price * quantity
                 IN Return(Acct(a.username, a.balance + proceeds,
                        IF old.shares - quantity = 0 THEN DictDel(a.holdings, sym)
                        ELSE DictSet(a.holdings, sym, Position(old.shares - quantity, old.avg_cost)),
                        Append(a.transactions, TradeRecord("sell", sym, quantity, price, 0 - proceeds))))

TA_buy(a, symbol, quantity) ==
    IF quantity <= 0 THEN Raise(a, InvalidQuantityError)
    ELSE IF quote(symbol) < 0 THEN Raise(a, UnknownSymbolError)
    ELSE LET sym == TA_upper(symbol)
             price == quote(symbol)
             cost == price * quantity
         IN IF cost > a.balance THEN Raise(a, InsufficientFundsError)
            ELSE Return(Acct(a.username, a.balance - cost,
                     IF sym \in DOMAIN a.holdings
                     THEN LET old == a.holdings[sym] IN
                          DictSet(a.holdings, sym,
                             Position(old.shares + quantity,
                                Rat(old.shares * old.avg_cost.num + quantity * price * old.avg_cost.den,
                                    old.avg_cost.den * (old.shares + quantity))))
                     ELSE DictSet(a.holdings, sym, Position(quantity, Rat(price, 1))),
                     Append(a.transactions, TradeRecord("buy", sym, quantity, price, 0 - cost))))

TA_sell(a, symbol, quantity) ==
    IF quantity <= 0 THEN Raise(a, InvalidQuantityError)
    ELSE IF TA_upper(symbol) \notin DOMAIN a.holdings THEN Raise(a, UnknownSymbolError)
    ELSE LET sym == TA_upper(symbol)
             old == a.holdings[sym]
         IN IF quantity > old.shares THEN Raise(a, InsufficientSharesError)
            ELSE LET price == quote(symbol)
                     proceeds == price * quantity
                 IN Return(Acct(a.username, a.balance + proceeds,
                        IF old.shares - quantity = 0 THEN DictDel(a.holdings, sym)
                        ELSE DictSet(a.holdings, sym, Position(old.shares - quantity, old.avg_cost)),
                        Append(a.transactions, TradeRecord("sell", sym, quantity, price, proceeds))))

TA_Commit(r, call) ==
    /\ username' = r.acct.username
    /\ balance' = r.acct.balance
    /\ holdings' = r.acct.holdings
    /\ transactions' = r.acct.transactions
    /\ output' = IF r.err = NoError THEN "None" ELSE r.err
    /\ lastCall' = call
    /\ succeeded' = IF r.err = NoError THEN succeeded + 1 ELSE succeeded
    /\ UNCHANGED others

TA_call_deposit ==
    \E amount \in AmountsTA :
        /\ CanCall
        /\ balance + amount <= MaxBalance
        /\ TA_Commit(TA_deposit(account, amount), Call("deposit", amount, "", 0, ""))

TA_call_withdraw ==
    \E amount \in AmountsTA :
        /\ CanCall
        /\ TA_Commit(TA_withdraw(account, amount), Call("withdraw", amount, "", 0, ""))

TA_call_buy ==
    \E symbol \in SymbolsTA, quantity \in Quantities :
        /\ CanCall
        /\ TA_Commit(TA_buy(account, symbol, quantity), Call("buy", 0, symbol, quantity, ""))

TA_call_sell ==
    \E symbol \in SymbolsTA, quantity \in Quantities :
        /\ CanCall
        /\ TA_Commit(TA_sell(account, symbol, quantity), Call("sell", 0, symbol, quantity, ""))

InitTA ==
    \E cash \in InitialCash :
        /\ username = TradingAccount(cash).username
        /\ balance = TradingAccount(cash).balance
        /\ holdings = TradingAccount(cash).holdings
        /\ transactions = TradingAccount(cash).transactions
        /\ output = ""
        /\ lastCall = Call("init", cash, "", 0, "")
        /\ succeeded = 0
        /\ initial_cash = cash
        /\ inflight = [c \in {} |-> 0]
        /\ interleaved = FALSE

NextTA ==
    \/ TA_call_deposit
    \/ TA_call_withdraw
    \/ TA_call_buy
    \/ TA_call_sell

SpecTA == InitTA /\ [][NextTA]_vars

\* ---------------------------------------------------------------- callers of the report getters
\* get_holdings and get_transaction_history return the account's own dict and
\* list objects (no copy is made): the value the caller holds is a reference
\* to the attribute, and what the caller does through it is done to the account.
RefHoldings == "<account.holdings>"
RefTransactions == "<account.transactions>"

caller_get_holdings ==
    /\ output' = RefHoldings
    /\ lastCall' = Call("get_holdings", 0, "", 0, "")
    /\ UNCHANGED <<username, balance, holdings, transactions, succeeded>>
    /\ UNCHANGED others

caller_get_transaction_history ==
    /\ output' = RefTransactions
    /\ lastCall' = Call("get_transaction_history", 0, "", 0, "")
    /\ UNCHANGED <<username, balance, holdings, transactions, succeeded>>
    /\ UNCHANGED others

\* h = account.get_holdings(); then h[symbol] = 0, del h[symbol] or h.clear()
caller_mutate_holdings ==
    /\ output = RefHoldings
    /\ \/ \E symbol \in Symbols :
            /\ holdings' = DictSet(holdings, symbol, 0)
            /\ lastCall' = Call("mutate_holdings", 0, symbol, 0, "set")
       \/ \E symbol \in DOMAIN holdings :
            /\ holdings' = DictDel(holdings, symbol)
            /\ lastCall' = Call("mutate_holdings", 0, symbol, 0, "del")
       \/ /\ holdings' = EmptyDict
          /\ lastCall' = Call("mutate_holdings", 0, "", 0, "clear")
    /\ UNCHANGED <<username, balance, transactions, output, succeeded>>
    /\ UNCHANGED others

\* t = account.get_transaction_history(); then t.append(record), t.pop() or t.clear()
caller_mutate_history ==
    /\ output = RefTransactions
    /\ \/ /\ CanCall
          /\ transactions' = Append(transactions, CashTx("Deposit", 2800))
          /\ lastCall' = Call("mutate_history", 2800, "", 0, "append")
       \/ /\ transactions # << >>
          /\ transactions' = SubSeq(transactions, 1, Len(transactions) - 1)
          /\ lastCall' = Call("mutate_history", 0, "", 0, "pop")
       \/ /\ transactions' = << >>
          /\ lastCall' = Call("mutate_history", 0, "", 0, "clear")
    /\ UNCHANGED <<username, balance, holdings, output, succeeded>>
    /\ UNCHANGED others

\* the callbacks are offered until MaxTx of them have succeeded
NextAlias ==
    \/ (succeeded < MaxTx /\ app_deposit)
    \/ (succeeded < MaxTx /\ app_buy_shares)
    \/ caller_get_holdings
    \/ caller_get_transaction_history
    \/ caller_mutate_holdings
    \/ caller_mutate_history

SpecAlias == Init /\ [][NextAlias]_vars

\* ---------------------------------------------------------------- concurrent callbacks
\* Gradio runs the callbacks of app.py in worker threads on the one
\* module-level account, and Account takes no lock.  A withdraw or buy_shares
\* call is a sequence of steps between which another thread may run: the
\* checks, the read and the write of `self.balance -= ...`, the update of
\* holdings, the append.  What a callback returns goes to its own caller.
Callers == {"c1", "c2"}
ConcAmounts == {0, 150, 300}
ConcSymbols == {"AAPL"}
ConcQuantities == 0..MaxQty

Frame(op, amount, symbol, quantity, pc, tmp) ==
    [op |-> op, amount |-> amount, symbol |-> symbol, quantity |-> quantity, pc |-> pc, tmp |-> tmp]
Idle == Frame("idle", 0, "", 0, "idle", 0)

AllIdle == \A c \in DOMAIN inflight : inflight[c] = Idle
Running == {c \in DOMAIN inflight : inflight[c] # Idle}

\* withdraw that skips the funds check
Mut_withdraw_check_amount_only(bal, amount) ==
    IF amount <= 0 THEN ErrWithdraw ELSE NoError

\* the checks of withdraw against the balance read
withdraw_check(bal, amount) ==
    IF amount <= 0 THEN ErrWithdraw
    ELSE IF bal - amount < 0 THEN ErrFunds
    ELSE NoError

\* the checks of buy_shares against the balance read
buy_shares_check(bal, symbol, quantity) ==
    IF quantity <= 0 THEN ErrQuantity
    ELSE IF get_share_price(symbol) * quantity > bal THEN ErrBuyFunds
    ELSE NoError

\* the amount a frame takes from the balance
Debit(f) == IF f.op = "withdraw" THEN f.amount ELSE get_share_price(f.symbol) * f.quantity

\* a step of caller c: it moves to frame f, and it ran inside another call
\* if some other caller's call is in progress
Step(c, f) ==
    /\ inflight' = [inflight EXCEPT ![c] = f]
    /\ interleaved' = (interleaved \/ Running \ {c} # {})
    /\ UNCHANGED <<username, output, lastCall, initial_cash>>

thread_begin(c) ==
    /\ inflight[c] = Idle
    /\ Len(transactions) + Cardinality(Running) < MaxTx
    /\ \/ \E amount \in ConcAmounts : Step(c, Frame("withdraw", amount, "", 0, "check", 0))
       \/ \E symbol \in ConcSymbols, quantity \in ConcQuantities :
             Step(c, Frame("buy_shares", 0, symbol, quantity, "check", 0))
    /\ UNCHANGED <<balance, holdings, transactions, succeeded>>

thread_check(c) ==
    LET f == inflight[c]
        err == IF f.op = "withdraw" THEN withdraw_check(balance, f.amount)
               ELSE buy_shares_check(balance, f.symbol, f.quantity)
    IN /\ f.pc = "check"
       /\ Step(c, IF err = NoError THEN [f EXCEPT !.pc = "load"] ELSE Idle)
       /\ UNCHANGED <<balance, holdings, transactions, succeeded>>

thread_load(c) ==
    LET f == inflight[c] IN
    /\ f.pc = "load"
    /\ Step(c, [f EXCEPT !.pc = "store", !.tmp = balance])
    /\ UNCHANGED <<balance, holdings, transactions, succeeded>>

thread_store(c) ==
    LET f == inflight[c] IN
    /\ f.pc = "store"
    /\ balance' = f.tmp - Debit(f)
    /\ Step(c, [f EXCEPT !.pc = IF f.op = "withdraw" THEN "append" ELSE "hold_test", !.tmp = 0])
    /\ UNCHANGED <<holdings, transactions, succeeded>>

thread_hold_test(c) ==
    LET f == inflight[c] IN
    /\ f.pc = "hold_test"
    /\ Step(c, [f EXCEPT !.pc = IF f.symbol \in DOMAIN holdings THEN "hold_load" ELSE "hold_set"])
    /\ UNCHANGED <<balance, holdings, transactions, succeeded>>

thread_hold_load(c) ==
    LET f == inflight[c] IN
    /\ f.pc = "hold_load"
    /\ f.symbol \in DOMAIN holdings
    /\ Step(c, [f EXCEPT !.pc = "hold_store", !.tmp = holdings[f.symbol]])
    /\ UNCHANGED <<balance, holdings, transactions, succeeded>>

thread_hold_store(c) ==
    LET f == inflight[c] IN
    /\ f.pc \in {"hold_store", "hold_set"}
    /\ holdings' = DictSet(holdings, f.symbol,
                           IF f.pc = "hold_store" THEN f.tmp + f.quantity ELSE f.quantity)
    /\ Step(c, [f EXCEPT !.pc = "append", !.tmp = 0])
    /\ UNCHANGED <<balance, transactions, succeeded>>

thread_append(c) ==
    LET f == inflight[c] IN
    /\ f.pc = "append"
    /\ transactions' = Append(transactions,
                              IF f.op = "withdraw" THEN CashTx("Withdrawal", f.amount)
                              ELSE ShareTx("Buy", f.symbol, f.quantity))
    /\ succeeded' = succeeded + 1
    /\ Step(c, Idle)
    /\ UNCHANGED <<balance, holdings>>

InitConc ==
    /\ username = Account_init("User").username
    /\ balance = Account_init("User").balance
    /\ holdings = Account_init("User").holdings
    /\ transactions = Account_init("User").transactions
    /\ output = ""
    /\ lastCall = Call("init", 0, "", 0, "User")
    /\ succeeded = 0
    /\ initial_cash = 0
    /\ inflight = [c \in Callers |-> Idle]
    /\ interleaved = FALSE

\* deposits are made while no other callback runs
NextConc ==
    \/ (AllIdle /\ app_deposit)
    \/ \E c \in Callers : thread_begin(c)
    \/ \E c \in Callers : thread_check(c)
    \/ \E c \in Callers : thread_load(c)
    \/ \E c \in Callers : thread_store(c)
    \/ \E c \in Callers : thread_hold_test(c)
    \/ \E c \in Callers : thread_hold_load(c)
    \/ \E c \in Callers : thread_hold_store(c)
    \/ \E c \in Callers : thread_append(c)

SpecConc == InitConc /\ [][NextConc]_vars

\* ---------------------------------------------------------------- both Account classes
\* every run of the accounts.py account and every run of the
\* test_accounts.py account (told apart by the name the account was built with)
InitBoth == Init \/ InitT

NextBoth ==
    \/ (username \in Usernames /\ Next)
    \/ (username = "user123" /\ NextT)

SpecBoth == InitBoth /\ [][NextBoth]_vars

\* ---------------------------------------------------------------- output/test_accounts.py
\* The Account class defined in src/output/test_accounts.py, built as the
\* TestAccount methods build it (user 'user1', with an initial deposit) and
\* called directly.  username holds user_id, initial_cash the initial_deposit,
\* output the exception raised by the last call (or "None").
SymbolsOT == {"AAPL", "TSLA", "XYZ"}
AmountsOT == {-150, 0, 500}
InitialDeposits == {0, 1000}

ExcDepositOT == "Deposit amount must be positive"
ExcPurchaseOT == "Insufficient funds for purchase"
ExceptionsOT == {ExcDepositOT, ExcPurchaseOT}

OT_get_share_price(symbol) ==
    CASE symbol = "AAPL" -> 150
      [] symbol = "TSLA" -> 600
      [] symbol = "GOOGL" -> 2800
      [] OTHER -> 0

\* the buy record of this class also carries the price
OT_BuyTx(symbol, quantity, price) ==
    [type |-> "buy", amount |-> 0, symbol |-> symbol, quantity |-> quantity, price |-> price]

OT_Account_init(user_id, initial_deposit) == Acct(user_id, initial_deposit, EmptyDict, << >>)

OT_deposit(a, amount) ==
    IF amount <= 0 THEN Raise(a, ExcDepositOT)
    ELSE Return(Acct(a.username, a.balance + amount, a.holdings,
                     Append(a.transactions, CashTx("deposit", amount))))

OT_buy_shares(a, symbol, quantity) ==
    LET price == OT_get_share_price(symbol)
        cost == price * quantity
    IN IF cost > a.balance THEN Raise(a, ExcPurchaseOT)
       ELSE Return(Acct(a.username, a.balance - cost,
                        IF symbol \in DOMAIN a.holdings
                        THEN DictSet(a.holdings, symbol, a.holdings[symbol] + quantity)
                        ELSE DictSet(a.holdings, symbol, quantity),
                        Append(a.transactions, OT_BuyTx(symbol, quantity, price))))

OT_call_deposit ==
    \E amount \in AmountsOT :
        /\ CanCall
        /\ balance + amount <= MaxBalance
        /\ T_Commit(OT_deposit(account, amount), Call("deposit", amount, "", 0, ""))

OT_call_buy_shares ==
    \E symbol \in SymbolsOT, quantity \in Quantities :
        /\ CanCall
        /\ T_Commit(OT_buy_shares(account, symbol, quantity),
                    Call("buy_shares", 0, symbol, quantity, ""))

InitOT ==
    \E initial_deposit \in InitialDeposits :
        /\ username = OT_Account_init("user1", initial_deposit).username
        /\ balance = OT_Account_init("user1", initial_deposit).balance
        /\ holdings = OT_Account_init("user1", initial_deposit).holdings
        /\ transactions = OT_Account_init("user1", initial_deposit).transactions
        /\ output = ""
        /\ lastCall = Call("init", initial_deposit, "", 0, "user1")
        /\ succeeded = 0
        /\ initial_cash = initial_deposit
        /\ inflight = [c \in {} |-> 0]
        /\ interleaved = FALSE

NextOT ==
    \/ OT_call_deposit
    \/ OT_call_buy_shares

SpecOT == InitOT /\ [][NextOT]_vars

\* ---------------------------------------------------------------- both test-file Account classes
\* every run of the src/test_accounts.py account and every run of the
\* src/output/test_accounts.py account (told apart by the user_id of the
\* account the tests build)
InitTests == InitT \/ InitOT

NextTests ==
    \/ (username = "user123" /\ NextT)
    \/ (username = "user1" /\ NextOT)

SpecTests == InitTests /\ [][NextTests]_vars

\* ---------------------------------------------------------------- properties
IsPrefix(s, t) == Len(s) <= Len(t) /\ SubSeq(t, 1, Len(s)) = s

Shares(h, s) == IF s \in DOMAIN h THEN h[s] ELSE 0

Failed == output \in Errors

\* C1: the balance is never negative, whatever deposit, withdraw, buy_shares
\* and sell_shares calls (valid or rejected) have been made.
C1_BalanceNonNegative == balance >= 0

\* a buy that spent the whole balance
C1_Witness ==
    /\ lastCall.op = "buy_shares"
    /\ output = "Bought"
    /\ balance = 0
    /\ Len(transactions) >= 2

\* C2: every symbol present in holdings maps to a share count > 0.
C2_HoldingsPositive == \A s \in DOMAIN holdings : holdings[s] > 0

\* a sell of the whole position, which removed its entry from holdings
C2_Witness ==
    /\ lastCall.op = "sell_shares"
    /\ output = "Sold"
    /\ lastCall.symbol \notin DOMAIN holdings
    /\ Len(transactions) = 3

\* C3: a callback whose Account call raised (it returns the error message)
\* leaves username, balance, holdings and transactions as they were.
C3_FailureChangesNothing ==
    [][output' \in Errors => UNCHANGED <<username, balance, holdings, transactions>>]_vars

\* a rejected buy on an account that has cash, a position and a history
C3_Witness ==
    /\ output = ErrBuyFunds
    /\ balance > 0
    /\ DOMAIN holdings # {}
    /\ Len(transactions) >= 2

\* C4: the history is as long as the number of deposit, withdraw, buy_shares
\* and sell_shares calls that succeeded on the account since it was created.
C4_HistoryCountsSuccesses == Len(transactions) = succeeded

\* a rejected call after two successful ones
C4_Witness ==
    /\ succeeded = 2
    /\ Failed
    /\ lastCall.op \in {"deposit", "withdraw", "buy_shares", "sell_shares"}

\* C5 (as stated): across every public operation, create_account included,
\* the history before the call is a prefix of the history after it.
C5_AppendOnlyEveryOperation == [][IsPrefix(transactions, transactions')]_vars

\* C5 (amended): across deposit, withdraw, buy_shares, sell_shares and the
\* report getters the history before the call is a prefix of the history
\* after it; create_account replaces the history by the empty list.
C5_AppendOnlyExceptCreate ==
    [][IF lastCall'.op = "create_account"
       THEN transactions' = << >>
       ELSE IsPrefix(transactions, transactions')]_vars

\* a report read after three records were appended
C5_Witness ==
    /\ lastCall.op = "get_transactions"
    /\ output = "Transactions"
    /\ Len(transactions) = 3

\* C6: deposit(amount) and withdraw(amount) with amount <= 0 raise and leave
\* balance and history unchanged, in any account state.
C6_NonPositiveAmountRejected ==
    [][(lastCall'.op \in {"deposit", "withdraw"} /\ lastCall'.amount <= 0) =>
          /\ output' = (IF lastCall'.op = "deposit" THEN ErrDeposit ELSE ErrWithdraw)
          /\ balance' = balance
          /\ transactions' = transactions]_vars

\* a zero withdrawal rejected on an account that holds cash
C6_Witness ==
    /\ lastCall.op = "withdraw"
    /\ lastCall.amount = 0
    /\ output = ErrWithdraw
    /\ balance > 0

\* C7: withdraw(a) with a > balance raises insufficient funds and changes
\* nothing; withdraw(balance) with balance > 0 succeeds and leaves 0.
C7_WithdrawBoundary ==
    [][lastCall'.op = "withdraw" =>
          /\ lastCall'.amount > balance =>
                /\ output' = ErrFunds
                /\ UNCHANGED <<balance, holdings, transactions>>
          /\ (lastCall'.amount = balance /\ balance > 0) =>
                /\ output' = "Withdrew"
                /\ balance' = 0]_vars

\* the whole balance was withdrawn
C7_Witness ==
    /\ lastCall.op = "withdraw"
    /\ output = "Withdrew"
    /\ balance = 0
    /\ lastCall.amount > 0

\* C8: a buy of q > 0 of a priced symbol succeeds exactly when price*q <=
\* balance and is otherwise rejected for insufficient funds; on success the
\* balance drops by price*q, the symbol's count grows by q, the other
\* positions are untouched and one Buy record for (symbol, q) is appended.
C8_BuyEffect ==
    [][(/\ lastCall'.op = "buy_shares"
        /\ lastCall'.quantity > 0
        /\ lastCall'.symbol \in PricedSymbols) =>
          LET sym == lastCall'.symbol
              q == lastCall'.quantity
              price == CASE sym = "AAPL" -> 150 [] sym = "TSLA" -> 700 [] sym = "GOOGL" -> 2800
              cost == price * q
          IN /\ (output' = "Bought") <=> (cost <= balance)
             /\ (cost > balance) =>
                   /\ output' = ErrBuyFunds
                   /\ UNCHANGED <<balance, holdings, transactions>>
             /\ (output' = "Bought") =>
                   /\ balance' = balance - cost
                   /\ DOMAIN holdings' = DOMAIN holdings \cup {sym}
                   /\ holdings'[sym] = Shares(holdings, sym) + q
                   /\ \A s \in DOMAIN holdings \ {sym} : holdings'[s] = holdings[s]
                   /\ transactions' = Append(transactions, ShareTx("Buy", sym, q))]_vars

\* a buy that added to an existing position and cost exactly the balance
C8_Witness ==
    /\ lastCall.op = "buy_shares"
    /\ output = "Bought"
    /\ lastCall.symbol \in PricedSymbols
    /\ balance = 0
    /\ Shares(holdings, lastCall.symbol) > lastCall.quantity

\* C9: a sell of q > 0 is rejected, changing nothing, when the symbol is not
\* held or q exceeds the shares held; otherwise the balance grows by
\* price*q, the count drops by q, the symbol leaves holdings exactly when
\* the count reaches 0, and one Sell record is appended.
C9_SellEffect ==
    [][(lastCall'.op = "sell_shares" /\ lastCall'.quantity > 0) =>
          LET sym == lastCall'.symbol
              q == lastCall'.quantity
              price == CASE sym = "AAPL" -> 150 [] sym = "TSLA" -> 700
                         [] sym = "GOOGL" -> 2800 [] OTHER -> 0
          IN IF sym \notin DOMAIN holdings \/ q > holdings[sym]
             THEN /\ output' = ErrShares
                  /\ UNCHANGED <<balance, holdings, transactions>>
             ELSE /\ output' = "Sold"
                  /\ balance' = balance + price * q
                  /\ Shares(holdings', sym) = holdings[sym] - q
                  /\ (sym \notin DOMAIN holdings') <=> (holdings[sym] = q)
                  /\ \A s \in DOMAIN holdings \ {sym} :
                        s \in DOMAIN holdings' /\ holdings'[s] = holdings[s]
                  /\ DOMAIN holdings' \subseteq DOMAIN holdings
                  /\ transactions' = Append(transactions, ShareTx("Sell", sym, q))]_vars

\* a partial sell: the position is still reported with the remaining shares
C9_Witness ==
    /\ lastCall.op = "sell_shares"
    /\ output = "Sold"
    /\ lastCall.symbol \in DOMAIN holdings
    /\ balance > 0

\* C10: in every account state, for every symbol and quantity whose buy
\* succeeds, the buy followed at once by the sell of the same symbol and
\* quantity succeeds and gives back the balance and the holdings map; the
\* history is longer by two records.
C10_BuySellRoundTrip ==
    \A sym \in Symbols, q \in Quantities :
        LET b == buy_shares(account, sym, q) IN
        b.err = NoError =>
            LET s == sell_shares(b.acct, sym, q) IN
            /\ s.err = NoError
            /\ s.acct.balance = balance
            /\ s.acct.holdings = holdings
            /\ Len(s.acct.transactions) = Len(transactions) + 2
            /\ IsPrefix(transactions, s.acct.transactions)

\* the account just after a buy and the matching sell of a held symbol
C10_Witness ==
    /\ Len(transactions) = 3
    /\ lastCall.op = "sell_shares"
    /\ output = "Sold"
    /\ transactions[2].type = "Buy"
    /\ transactions[3].type = "Sell"
    /\ transactions[2].symbol = transactions[3].symbol
    /\ transactions[2].quantity = transactions[3].quantity
    /\ transactions[3].symbol \in PricedSymbols

\* str.upper on the spellings the caller types
upper(s) ==
    CASE s = "aapl" -> "AAPL"
      [] s = "tsLa" -> "TSLA"
      [] OTHER -> s

\* C11: price lookup is case-insensitive: a successful buy of any spelling of
\* a symbol is charged the price quoted for the upper-case spelling.
C11_CaseInsensitivePrice ==
    [][(lastCall'.op = "buy_shares" /\ output' = "Bought") =>
          balance' = balance - get_share_price(upper(lastCall'.symbol)) * lastCall'.quantity]_vars

\* C12: a buy of a symbol outside the price table is rejected and changes
\* nothing, so holdings only ever contain symbols of the price table.
C12_UnknownSymbolRejected ==
    [][/\ (lastCall'.op = "buy_shares" /\ lastCall'.symbol \notin PricedSymbols) =>
             /\ output' \in Errors
             /\ UNCHANGED <<balance, holdings, transactions>>
       /\ DOMAIN holdings' \subseteq PricedSymbols]_vars

\* sum of the amounts of the records of one type, by position in the history
RECURSIVE TotalOf(_, _, _)
TotalOf(t, type, n) ==
    IF n = 0 THEN 0
    ELSE (IF t[n].type = type THEN t[n].amount ELSE 0) + TotalOf(t, type, n - 1)

\* shares valued at the quotes of the price table (any other symbol quotes 0)
MarketValue(h) == 150 * Shares(h, "AAPL") + 700 * Shares(h, "TSLA") + 2800 * Shares(h, "GOOGL")

C14_ProfitLossIsMarketValue ==
    (/\ Len(transactions) \in {2, 3}
     /\ transactions[1].type = "deposit" /\ transactions[1].amount > 0
     /\ transactions[2].type = "buy" /\ transactions[2].quantity > 0
     /\ Len(transactions) = 3 => (transactions[3].type = "withdraw" /\ transactions[3].amount > 0))
    => calculate_profit_loss(account) =
          T_get_share_price(transactions[2].symbol) * transactions[2].quantity
          - (IF Len(transactions) = 3 THEN transactions[3].amount ELSE 0)

\* C15: get_portfolio_value is the balance plus the shares of every held
\* symbol at its quote, and exactly the balance when nothing is held.
C15_PortfolioValue ==
    /\ get_portfolio_value(account) = balance + MarketValue(holdings)
    /\ DOMAIN holdings = {} => get_portfolio_value(account) = balance

\* cash left over next to positions in two priced symbols
C15_Witness ==
    /\ Cardinality(DOMAIN holdings \cap PricedSymbols) = 2
    /\ balance > 0
    /\ get_portfolio_value(account) > balance

RECURSIVE SumTotalAmount(_, _)
SumTotalAmount(t, n) == IF n = 0 THEN 0 ELSE t[n].total_amount + SumTotalAmount(t, n - 1)

C18_ReportsAreSnapshots ==
    [][lastCall'.op \in {"mutate_holdings", "mutate_history"} =>
          UNCHANGED <<balance, holdings, transactions>>]_vars

\* the balance the records of accounts.py account for
RECURSIVE LedgerBalance(_, _)
LedgerBalance(t, n) ==
    IF n = 0 THEN 0
    ELSE LedgerBalance(t, n - 1) +
         (CASE t[n].type = "Deposit" -> t[n].amount
            [] t[n].type = "Withdrawal" -> 0 - t[n].amount
            [] t[n].type = "Buy" -> 0 - MarketValue([s \in {t[n].symbol} |-> t[n].quantity])
            [] t[n].type = "Sell" -> MarketValue([s \in {t[n].symbol} |-> t[n].quantity]))

\* C19: as long as no callback has run inside another one, the balance is
\* never negative and, between calls, is what the recorded calls account
\* for; with interleaved callbacks a negative balance is reachable (the
\* witness).
C19_SafeOnlyWhenAlone ==
    ~interleaved =>
        /\ balance >= 0
        /\ AllIdle => balance = LedgerBalance(transactions, Len(transactions))

\* both callers have returned and the balance is negative
C19_Witness ==
    /\ DOMAIN inflight = Callers
    /\ AllIdle
    /\ interleaved
    /\ balance < 0

\* both callers have returned and one debit is missing from the balance
C19_LostUpdate ==
    /\ DOMAIN inflight = Callers
    /\ AllIdle
    /\ interleaved
    /\ balance > LedgerBalance(transactions, Len(transactions))

\* C20: the balance of the test_accounts.py account is never negative,
\* whatever deposit, withdraw, buy_share and sell_share calls have been made.
C20_BalanceNonNegativeT == username = "user123" => balance >= 0

\* C21: in both test-file Account classes a buy with quantity <= 0 raises and
\* leaves balance, holdings and transactions as they were, so no holding with
\* zero or negative shares ever exists.
C21_NonPositiveBuyRejected ==
    [][/\ (lastCall'.op \in {"buy_share", "buy_shares"} /\ lastCall'.quantity <= 0) =>
             /\ output' # "None"
             /\ UNCHANGED <<balance, holdings, transactions>>
       /\ \A s \in DOMAIN holdings' : holdings'[s] > 0]_vars

RECURSIVE QuantityOf(_, _, _, _)
QuantityOf(t, type, s, n) ==
    IF n = 0 THEN 0
    ELSE (IF t[n].type = type /\ t[n].symbol = s THEN t[n].quantity ELSE 0)
         + QuantityOf(t, type, s, n - 1)

\* C23: the holdings can be rebuilt from the history: for every symbol the
\* shares held (0 when the symbol is absent) are the quantities bought minus
\* the quantities sold, and at no prefix of the history has more of a symbol
\* been sold than bought.
C23_HoldingsFromHistory ==
    \A s \in Symbols :
        /\ Shares(holdings, s) =
              QuantityOf(transactions, "Buy", s, Len(transactions))
              - QuantityOf(transactions, "Sell", s, Len(transactions))
        /\ \A k \in 0..Len(transactions) :
              QuantityOf(transactions, "Sell", s, k) <= QuantityOf(transactions, "Buy", s, k)

\* part of a position was sold: one share of the two bought is still held
C23_Witness ==
    /\ Len(transactions) = 3
    /\ transactions[2].type = "Buy"
    /\ transactions[3].type = "Sell"
    /\ transactions[2].symbol = transactions[3].symbol
    /\ transactions[3].quantity < transactions[2].quantity
    /\ Shares(holdings, transactions[3].symbol) =
          transactions[2].quantity - transactions[3].quantity

====
